---- MODULE Spec2Model ----
(***************************************************************************)
(* pymsh: incremental multiset hash functions.                             *)
(*                                                                         *)
(*   src/src/pymsh/base.py    MSH       (element hash H)                    *)
(*   src/src/pymsh/xormsh.py  XORMSH    (stateful XOR combiner)             *)
(*   src/pymsh.py             MSetXORHash, MSetAddHash, MSetMuHash,         *)
(*                            MSetVAddHash (bulk hashers over a dict)       *)
(*                                                                         *)
(* The cryptographic primitives (blake2b, HMAC, sha256) are oracles: a     *)
(* table drawn once, at construction, from all tables over a small range.  *)
(* Everything the repository computes from their output (int.from_bytes,   *)
(* to_bytes, XOR, the modular sums and products) is computed as the code   *)
(* computes it.                                                            *)
(***************************************************************************)
EXTENDS Integers, Sequences, FiniteSets

VARIABLES
    \* ---- XORMSH instance (xormsh.py)
    blake2b,        \* oracle: digest bytes of self.H(e).digest() per element
    K,              \* self.K
    nonce,          \* self.nonce
    init_hmac,      \* self.init_hmac
    combined_hash,  \* self.combined_hash
    ret,            \* what the last call returned or raised
    lastCall,       \* the last call made on the instance
    absorbed,       \* history: elements combined since construction / reset()
    shape,          \* history: form of the call sequence since the last reset()
    ctor,           \* history: K, nonce and init_hmac as __init__ set them
    \* ---- threads calling update()/reset() on one XORMSH instance
    pc, job, loaded,
    \* ---- one bulk hasher instance (pymsh.py) and its caller
    cls,            \* the class of the instance
    key, m,         \* self.key, self.m      (MSetXORHash, MSetAddHash)
    q,              \* self.q                (MSetMuHash)
    n, l,           \* self.n, self.l        (MSetVAddHash)
    hmac_sha256,    \* oracle: hmac.new(key, data, 'sha256').digest() per data
    sha256,         \* oracle: sha256(b).digest() per element
    multiset,       \* the caller's dict, in insertion order
    out             \* what the last hash(multiset) returned or raised

xorVars == <<blake2b, K, nonce, init_hmac, combined_hash, ret, lastCall,
             absorbed, shape, ctor>>
thrVars == <<pc, job, loaded>>
bulkVars == <<cls, key, m, q, n, l, hmac_sha256, sha256, multiset, out>>
vars == <<xorVars, thrVars, bulkVars>>

(***************************************************************************)
(* Bounds                                                                  *)
(***************************************************************************)
\* digest length in bytes of the scaled-down hash oracle
DigestLen == 2
\* longest list handed to XORMSH.hash()
MaxLen == 2
\* most elements combined between two resets
MaxAbsorb == 3
\* threads sharing one XORMSH instance
NThreads == 2
\* largest multiplicity in a dict handed to a bulk hasher
MaxMult == 2
\* bit length of the prime drawn by MSetMuHash: 2^QBits <= q < 2^(QBits+1)
QBits == 2

\* the byte values the oracles and the random source produce
ByteVals == {0, 129}

(***************************************************************************)
(* Elements: Python values handed to hash()/update().  bytes objects are   *)
(* accepted by hashlib; a str makes hashlib raise TypeError.               *)
(***************************************************************************)
BytesElems == [type : {"bytes"}, val : {"apple", "date"}]
StrElems == [type : {"str"}, val : {"apple"}]
Elements == BytesElems \cup StrElems

IsBytes(e) == e.type = "bytes"

\* the digests the oracles answer with: at most one non-zero byte, so that
\* leading zero bytes, the zero digest and colliding elements all occur
Digests ==
    {d \in [1..DigestLen -> ByteVals] :
        Cardinality({i \in 1..DigestLen : d[i] # 0}) <= 1}

(***************************************************************************)
(* Integer helpers of the Python runtime                                   *)
(***************************************************************************)
RECURSIVE Xor(_, _)
Xor(a, b) ==
    IF a = 0 THEN b
    ELSE IF b = 0 THEN a
    ELSE (((a % 2) + (b % 2)) % 2) + 2 * Xor(a \div 2, b \div 2)

\* int.from_bytes(bs, byteorder='big')
RECURSIVE from_bytes(_)
from_bytes(bs) ==
    IF Len(bs) = 0 THEN 0
    ELSE 256 * from_bytes(SubSeq(bs, 1, Len(bs) - 1)) + bs[Len(bs)]

\* int.bit_length()
RECURSIVE bit_length(_)
bit_length(x) == IF x = 0 THEN 0 ELSE 1 + bit_length(x \div 2)

RECURSIVE Pow(_, _)
Pow(b, e) == IF e = 0 THEN 1 ELSE b * Pow(b, e - 1)

\* int.to_bytes(length, byteorder='big')
to_bytes(x, length) ==
    [i \in 1..length |-> (x \div Pow(256, length - i)) % 256]

\* secrets.token_bytes(key_size), secrets.token_bytes(nonce_size): the random
\* byte strings an instance may draw, as opaque values
Keys == {"key1", "key2"}
Nonces == {"nonce1", "nonce2"}

(***************************************************************************)
(* base.py: MSH                                                            *)
(***************************************************************************)
\* MSH.hash_element(e): self.H(e).digest(); raises TypeError on a str
hash_element(e) == blake2b[e]

\* self.H(b).digest() of the finalisation: an uninterpreted application
H_digest(b) == <<"blake2b", b>>

\* the outcome of a call: the value returned, or the exception raised
Returned(v) == [kind |-> "return", value |-> v]
Raised(exc) == [kind |-> exc, value |-> <<>>]
NoCall == [kind |-> "None", value |-> <<>>]

(***************************************************************************)
(* xormsh.py: XORMSH                                                       *)
(***************************************************************************)
\* XORMSH.__combine(new_hash): the new combined_hash and the bytes returned
combine_mut_assign(c, new_hash) ==
    LET v == from_bytes(new_hash)
    IN [combined_hash |-> v, bytes |-> to_bytes(v, (bit_length(v) + 7) \div 8)]

combine(c, new_hash) ==
    LET v == Xor(c, from_bytes(new_hash))
    IN [combined_hash |-> v, bytes |-> to_bytes(v, (bit_length(v) + 7) \div 8)]

\* the for loop of XORMSH.hash: stops at the first element hashlib rejects
RECURSIVE hash_loop(_, _)
hash_loop(c, es) ==
    IF es = <<>> THEN [combined_hash |-> c, raised |-> FALSE, done |-> <<>>]
    ELSE IF ~IsBytes(Head(es))
         THEN [combined_hash |-> c, raised |-> TRUE, done |-> <<>>]
         ELSE LET r == hash_loop(combine(c, hash_element(Head(es))).combined_hash,
                                 Tail(es))
              IN [r EXCEPT !.done = <<Head(es)>> \o @]

\* XORMSH.hash(elements) from running value c: value left, result
xormsh_hash_from_seed(c, es) ==
    LET r == hash_loop(init_hmac, es)
    IN IF r.raised
       THEN [combined_hash |-> r.combined_hash, ret |-> Raised("TypeError"), done |-> r.done]
       ELSE LET f == combine(r.combined_hash, <<>>)
            IN [combined_hash |-> f.combined_hash,
                ret |-> Returned(H_digest(f.bytes)), done |-> r.done]

xormsh_hash(c, es) ==
    LET r == hash_loop(c, es)
    IN IF r.raised
       THEN [combined_hash |-> r.combined_hash, ret |-> Raised("TypeError"), done |-> r.done]
       ELSE LET f == combine(r.combined_hash, <<>>)
            IN [combined_hash |-> f.combined_hash,
                ret |-> Returned(H_digest(f.bytes)), done |-> r.done]

\* XORMSH.update(new_element) from running value c
xormsh_update(c, e) ==
    IF ~IsBytes(e)
    THEN [combined_hash |-> c, ret |-> Raised("TypeError"), done |-> <<>>]
    ELSE LET f == combine(c, hash_element(e))
         IN [combined_hash |-> f.combined_hash,
             ret |-> Returned(H_digest(f.bytes)), done |-> <<e>>]

\* XORMSH.reset(): the value assigned to self.combined_hash
reset_mut_zero(seed) == 0

reset_value(seed) == seed

(***************************************************************************)
(* History bookkeeping                                                     *)
(***************************************************************************)
NoneAbsorbed == [e \in BytesElems |-> 0]

RECURSIVE Count(_, _)
Count(es, e) ==
    IF es = <<>> THEN 0
    ELSE (IF Head(es) = e THEN 1 ELSE 0) + Count(Tail(es), e)

Absorb(bag, es) == [e \in BytesElems |-> bag[e] + Count(es, e)]

RECURSIVE SumOver(_, _)
SumOver(f, S) ==
    IF S = {} THEN 0
    ELSE LET x == CHOOSE y \in S : TRUE IN f[x] + SumOver(f, S \ {x})

Total(bag) == SumOver(bag, BytesElems)

SeqsUpTo(S, len) == UNION {[1..k -> S] : k \in 0..len}

NoThreads == <<>>

(***************************************************************************)
(* Sequential use of one XORMSH instance                                   *)
(***************************************************************************)
\* XORMSH.__init__
XInit ==
    /\ blake2b \in [BytesElems -> Digests]
    /\ K \in Keys
    /\ nonce \in Nonces
    /\ \E d \in Digests : init_hmac = from_bytes(d)
    /\ combined_hash = init_hmac
    /\ ret = NoCall
    /\ lastCall = "__init__"
    /\ absorbed = NoneAbsorbed
    /\ shape = "fresh"
    /\ ctor = [K |-> K, nonce |-> nonce, init_hmac |-> init_hmac]

NoBulk ==
    /\ cls = "-" /\ key = "-" /\ m = 0 /\ q = 0 /\ n = 0 /\ l = 0
    /\ hmac_sha256 = <<>> /\ sha256 = <<>>
    /\ multiset = <<>> /\ out = NoCall

Init ==
    /\ XInit
    /\ pc = NoThreads /\ job = NoThreads /\ loaded = NoThreads
    /\ NoBulk

Hash(es) ==
    LET r == xormsh_hash(combined_hash, es)
    IN /\ Total(absorbed) + Len(r.done) <= MaxAbsorb
       /\ combined_hash' = r.combined_hash
       /\ ret' = r.ret
       /\ lastCall' = "hash"
       /\ absorbed' = Absorb(absorbed, r.done)
       /\ shape' = IF shape = "fresh" /\ r.ret.kind = "return"
                   THEN "hash_updates" ELSE "other"
       /\ UNCHANGED <<blake2b, K, nonce, init_hmac, ctor, thrVars, bulkVars>>

Update(e) ==
    LET r == xormsh_update(combined_hash, e)
    IN /\ Total(absorbed) + Len(r.done) <= MaxAbsorb
       /\ combined_hash' = r.combined_hash
       /\ ret' = r.ret
       /\ lastCall' = "update"
       /\ absorbed' = Absorb(absorbed, r.done)
       /\ shape' = IF shape = "hash_updates" /\ r.ret.kind = "return"
                   THEN "hash_updates" ELSE "other"
       /\ UNCHANGED <<blake2b, K, nonce, init_hmac, ctor, thrVars, bulkVars>>

Reset ==
    /\ combined_hash' = reset_value(init_hmac)
    /\ ret' = NoCall
    /\ lastCall' = "reset"
    /\ absorbed' = NoneAbsorbed
    /\ shape' = "fresh"
    /\ UNCHANGED <<blake2b, K, nonce, init_hmac, ctor, thrVars, bulkVars>>

Next ==
    \/ \E es \in SeqsUpTo(Elements, MaxLen) : Hash(es)
    \/ \E e \in Elements : Update(e)
    \/ Reset

Spec == Init /\ [][Next]_vars

(***************************************************************************)
(* Properties of the sequential XORMSH                                     *)
(***************************************************************************)
IsDigest(r) == r.kind = "return"

\* the sequences holding exactly the elements of bag
Orderings(bag) ==
    {E \in [1..Total(bag) -> BytesElems] :
        \A e \in BytesElems : Count(E, e) = bag[e]}

\* seed XOR the element hash of every absorbed occurrence
RECURSIVE XorTimes(_, _, _)
XorTimes(c, h, k) == IF k = 0 THEN c ELSE XorTimes(Xor(c, h), h, k - 1)

RECURSIVE XorBag(_, _, _)
XorBag(c, bag, S) ==
    IF S = {} THEN c
    ELSE LET e == CHOOSE x \in S : TRUE
         IN XorBag(XorTimes(c, from_bytes(blake2b[e]), bag[e]), bag, S \ {e})

\* C1: after reset() (or construction), hash(P[0..k)) followed by
\* update(P[k]) ... update(P[n-1]) returns, as its last digest, the digest that
\* reset(); hash(E) returns for every ordering E of the same elements.
IncrementalBulkEquivalence ==
    shape = "hash_updates" =>
        \A E \in Orderings(absorbed) :
            ret = xormsh_hash(reset_value(init_hmac), E).ret

\* C1 witness: a hash of one element followed by an update with another one,
\* whose element hashes differ and are not zero.
IncrementalBulkWitness ==
    /\ shape = "hash_updates" /\ lastCall = "update"
    /\ \E a, b \in BytesElems :
          /\ a # b /\ absorbed[a] = 1 /\ absorbed[b] = 1
          /\ blake2b[a] # blake2b[b]
          /\ from_bytes(blake2b[a]) # 0 /\ from_bytes(blake2b[b]) # 0
    /\ IsDigest(ret)

\* C7 (as claimed): a call that raises TypeError leaves the running combined
\* value as it was before the call.
TypeErrorLeavesNoPartialState ==
    [][ret'.kind = "TypeError" => combined_hash' = combined_hash]_vars

\* C8: K, nonce and init_hmac stay as __init__ set them, and right after a
\* reset() the running value is that seed.
IdentityImmutableResetRestores ==
    /\ K = ctor.K /\ nonce = ctor.nonce /\ init_hmac = ctor.init_hmac
    /\ lastCall = "reset" => combined_hash = ctor.init_hmac

\* C8 witness: reset() has run on an instance whose seed is not zero.
ResetWitness ==
    lastCall = "reset" /\ init_hmac # 0 /\ combined_hash = init_hmac

\* C10: the running value is the seed XORed with the element hash of every
\* element absorbed since the last reset(), and a returned digest is the
\* finalisation of the running value.
AccumulatorInvariant ==
    /\ combined_hash = XorBag(init_hmac, absorbed, BytesElems)
    /\ IsDigest(ret) =>
          ret.value = H_digest(to_bytes(combined_hash,
                                        (bit_length(combined_hash) + 7) \div 8))

\* C10 witness: hash() called with no reset() before it, after an update()
\* that absorbed the same element: the two occurrences cancel.
AccumulatorWitness ==
    /\ lastCall = "hash" /\ shape = "other" /\ IsDigest(ret)
    /\ \E e \in BytesElems :
          /\ absorbed[e] = 2
          /\ from_bytes(blake2b[e]) # 0
    /\ combined_hash = init_hmac


(***************************************************************************)
(* Threads sharing one XORMSH instance.  Each thread makes one call,       *)
(* update(e) or reset().  `self.combined_hash ^= x` is a load of the       *)
(* attribute, an XOR and a store of the attribute; the interpreter may     *)
(* switch threads between the load and the store.  reset() is one store.   *)
(* The module takes no lock.                                               *)
(***************************************************************************)
Threads == 1..NThreads

Jobs == [call : {"update"}, arg : BytesElems] \cup [call : {"reset"}, arg : {"-"}]

TInit ==
    /\ XInit
    /\ pc = [t \in Threads |-> "idle"]
    /\ job = [t \in Threads |-> [call |-> "-", arg |-> "-"]]
    /\ loaded = [t \in Threads |-> 0]
    /\ NoBulk

\* update(e), up to the load of self.combined_hash in __combine
TLoad(t, e) ==
    /\ pc[t] = "idle"
    /\ pc' = [pc EXCEPT ![t] = "loaded"]
    /\ job' = [job EXCEPT ![t] = [call |-> "update", arg |-> e]]
    /\ loaded' = [loaded EXCEPT ![t] = combined_hash]
    /\ UNCHANGED <<xorVars, bulkVars>>

\* update(e), the XOR and the store of self.combined_hash in __combine; what
\* follows in update() (to_bytes, the finalisation) only reads the instance
TStore(t) ==
    /\ pc[t] = "loaded"
    /\ combined_hash' = combine(loaded[t], hash_element(job[t].arg)).combined_hash
    /\ pc' = [pc EXCEPT ![t] = "done"]
    /\ UNCHANGED <<blake2b, K, nonce, init_hmac, ret, lastCall, absorbed,
                   shape, ctor, job, loaded, bulkVars>>

\* reset(): one store of self.combined_hash
TReset(t) ==
    /\ pc[t] = "idle"
    /\ combined_hash' = reset_value(init_hmac)
    /\ pc' = [pc EXCEPT ![t] = "done"]
    /\ job' = [job EXCEPT ![t] = [call |-> "reset", arg |-> "-"]]
    /\ UNCHANGED <<blake2b, K, nonce, init_hmac, ret, lastCall, absorbed,
                   shape, ctor, loaded, bulkVars>>

TNext ==
    \E t \in Threads :
        \/ \E e \in BytesElems : TLoad(t, e)
        \/ TStore(t)
        \/ TReset(t)

SpecThreads == TInit /\ [][TNext]_vars

\* the orders in which the threads' calls may run one after the other
SerialOrders ==
    {o \in [1..NThreads -> Threads] : \A t \in Threads : \E i \in 1..NThreads : o[i] = t}

RECURSIVE RunSerially(_, _)
RunSerially(c, o) ==
    IF o = <<>> THEN c
    ELSE LET j == job[Head(o)]
         IN RunSerially(IF j.call = "reset" THEN reset_value(init_hmac)
                        ELSE xormsh_update(c, j.arg).combined_hash,
                        Tail(o))

AllDone == \A t \in Threads : pc[t] = "done"

\* C9 (as claimed): once every thread's call has finished, the running value
\* is the one some serial order of the calls produces: no update is lost.
NoLostUpdate ==
    AllDone => \E o \in SerialOrders : combined_hash = RunSerially(init_hmac, o)

(***************************************************************************)
(* pymsh.py: the bulk hashers.  A dict is the sequence of its items in     *)
(* insertion order, each [elem, mult], with no element twice.              *)
(***************************************************************************)
Classes == {"MSetXORHash", "MSetAddHash", "MSetMuHash", "MSetVAddHash"}

\* the constructor arguments tried
BitWidths == {1, 8, 16}
VecModuli == {7, 256}
VecLens == {1, 2}

Mults == (-1)..MaxMult

\* bytes of each slice h[i*4:(i+1)*4] in MSetVAddHash.H
ChunkBytes == 4

IsPrime(x) == x > 1 /\ \A d \in 2..(x - 1) : x % d # 0

\* sympy.randprime(2**q, 2**(q+1)): the primes it may return
randprime(a, b) == {x \in a..(b - 1) : IsPrime(x)}

\* MSetXORHash.H / MSetAddHash.H (the two are the same code)
H(prefix, b) == from_bytes(hmac_sha256[<<prefix, b>>]) % Pow(2, m)

\* MSetMuHash.H
MuH(b) ==
    LET h == from_bytes(sha256[b]) % q
    IN IF h # 0 THEN h ELSE 1

\* MSetVAddHash.H; a Python slice past the end of h is empty
slice(h, from, to) ==
    IF from >= Len(h) THEN <<>>
    ELSE SubSeq(h, from + 1, IF to > Len(h) THEN Len(h) ELSE to)

VAddH(b) ==
    LET h == sha256[b]
    IN [i \in 1..l |->
          from_bytes(slice(h, (i - 1) * ChunkBytes, i * ChunkBytes)) % n]

\* the loop of MSetXORHash.hash
RECURSIVE xor_loop_mut_assign(_, _, _)
xor_loop_mut_assign(sum_xor, count, items) ==
    IF items = <<>> THEN <<sum_xor, count>>
    ELSE LET it == Head(items)
             h == H(1, it.elem)
         IN xor_loop_mut_assign(h * (it.mult % 2), count + it.mult, Tail(items))

RECURSIVE xor_loop_mut_noparity(_, _, _)
xor_loop_mut_noparity(sum_xor, count, items) ==
    IF items = <<>> THEN <<sum_xor, count>>
    ELSE LET it == Head(items)
             h == H(1, it.elem)
             k == IF it.mult < 0 THEN -it.mult ELSE it.mult
         IN xor_loop_mut_noparity(Xor(sum_xor, h * k), count + it.mult,
                                  Tail(items))

RECURSIVE xor_loop(_, _, _)
xor_loop(sum_xor, count, items) ==
    IF items = <<>> THEN <<sum_xor, count>>
    ELSE LET it == Head(items)
             h == H(1, it.elem)
         IN xor_loop(Xor(sum_xor, h * (it.mult % 2)), count + it.mult,
                     Tail(items))

\* MSetXORHash.hash(multiset)
MSetXORHash_hash_mut_nocount(items) ==
    LET r == xor_loop(H(0, nonce), 0, items)
    IN Returned(<<r[1], 0, nonce>>)

MSetXORHash_hash(items) ==
    LET r == xor_loop(H(0, nonce), 0, items)
    IN Returned(<<r[1], r[2] % Pow(2, m), nonce>>)

\* the loop of MSetAddHash.hash; it raises once a multiplicity is negative
RECURSIVE add_loop(_, _)
add_loop(sum_mod, items) ==
    IF items = <<>> THEN [raised |-> FALSE, sum_mod |-> sum_mod]
    ELSE LET it == Head(items)
         IN IF it.mult < 0 THEN [raised |-> TRUE, sum_mod |-> sum_mod]
            ELSE add_loop((sum_mod + H(1, it.elem) * it.mult) % Pow(2, m),
                          Tail(items))

\* MSetAddHash.hash(multiset)
MSetAddHash_hash(items) ==
    LET r == add_loop(H(0, nonce), items)
    IN IF r.raised THEN Raised("ValueError")
       ELSE Returned(<<r.sum_mod, nonce>>)

\* pow(b, e, q) of Python 3.8 and later: a negative e takes the inverse of b
RECURSIVE ModExp(_, _, _)
ModExp(b, e, md) == IF e = 0 THEN 1 % md ELSE (b * ModExp(b, e - 1, md)) % md

pow(b, e, md) ==
    IF e >= 0 THEN ModExp(b, e, md)
    ELSE ModExp(CHOOSE x \in 0..(md - 1) : (x * b) % md = 1, -e, md)

\* the loop of MSetMuHash.hash
RECURSIVE mu_loop_mut_times(_, _)
mu_loop_mut_times(product, items) ==
    IF items = <<>> THEN product
    ELSE LET it == Head(items)
         IN mu_loop_mut_times((product * ((MuH(it.elem) * it.mult) % q)) % q,
                              Tail(items))

RECURSIVE mu_loop(_, _)
mu_loop(product, items) ==
    IF items = <<>> THEN product
    ELSE LET it == Head(items)
         IN mu_loop((product * pow(MuH(it.elem), it.mult, q)) % q, Tail(items))

\* MSetMuHash.hash(multiset)
MSetMuHash_hash(items) == Returned(mu_loop(1, items))

\* the loops of MSetVAddHash.hash
RECURSIVE vadd_loop(_, _)
vadd_loop(sum_vector, items) ==
    IF items = <<>> THEN sum_vector
    ELSE LET it == Head(items)
             vec == VAddH(it.elem)
         IN vadd_loop([i \in 1..l |-> (sum_vector[i] + vec[i] * it.mult) % n],
                      Tail(items))

\* MSetVAddHash.hash(multiset)
MSetVAddHash_hash(items) == Returned(vadd_loop([i \in 1..l |-> 0], items))

\* hash(multiset) of the instance
BulkHash(items) ==
    CASE cls = "MSetXORHash" -> MSetXORHash_hash(items)
      [] cls = "MSetAddHash" -> MSetAddHash_hash(items)
      [] cls = "MSetMuHash" -> MSetMuHash_hash(items)
      [] cls = "MSetVAddHash" -> MSetVAddHash_hash(items)

(***************************************************************************)
(* One bulk hasher and a caller that builds a dict and hashes it           *)
(***************************************************************************)
BulkElems == {"a", "b"}

NoXormsh ==
    /\ blake2b = <<>> /\ K = "-" /\ init_hmac = 0 /\ combined_hash = 0
    /\ ret = NoCall /\ lastCall = "-" /\ absorbed = <<>> /\ shape = "-"
    /\ ctor = <<>>
    /\ pc = NoThreads /\ job = NoThreads /\ loaded = NoThreads

\* MSetXORHash.__init__, MSetAddHash.__init__
KeyedInit(c) ==
    /\ cls = c
    /\ key \in Keys
    /\ m \in BitWidths
    /\ nonce \in Nonces
    /\ hmac_sha256 \in [{<<0, nonce>>} \cup {<<1, e>> : e \in BulkElems} -> Digests]
    /\ q = 0 /\ n = 0 /\ l = 0 /\ sha256 = <<>>

\* MSetMuHash.__init__
MuInit ==
    /\ cls = "MSetMuHash"
    /\ q \in randprime(Pow(2, QBits), Pow(2, QBits + 1))
    /\ sha256 \in [BulkElems -> Digests]
    /\ key = "-" /\ m = 0 /\ nonce = "-" /\ n = 0 /\ l = 0 /\ hmac_sha256 = <<>>

\* MSetVAddHash.__init__
VAddInit ==
    /\ cls = "MSetVAddHash"
    /\ n \in VecModuli
    /\ l \in VecLens
    /\ sha256 \in [BulkElems -> Digests]
    /\ key = "-" /\ m = 0 /\ nonce = "-" /\ q = 0 /\ hmac_sha256 = <<>>

BInit ==
    /\ NoXormsh
    /\ \/ KeyedInit("MSetXORHash")
       \/ KeyedInit("MSetAddHash")
       \/ MuInit
       \/ VAddInit
    /\ multiset = <<>>
    /\ out = NoCall

HasKey(items, e) == \E i \in 1..Len(items) : items[i].elem = e

\* multiset[e] = k
SetItem(e, k) ==
    /\ multiset' =
         IF HasKey(multiset, e)
         THEN [i \in 1..Len(multiset) |->
                 IF multiset[i].elem = e THEN [elem |-> e, mult |-> k]
                 ELSE multiset[i]]
         ELSE Append(multiset, [elem |-> e, mult |-> k])
    /\ multiset' # multiset
    /\ out' = NoCall
    /\ UNCHANGED <<xorVars, thrVars, cls, key, m, q, n, l, hmac_sha256, sha256>>

\* multiset.clear()
Clear ==
    /\ multiset # <<>>
    /\ multiset' = <<>>
    /\ out' = NoCall
    /\ UNCHANGED <<xorVars, thrVars, cls, key, m, q, n, l, hmac_sha256, sha256>>

\* hasher.hash(multiset)
CallHash ==
    /\ out' = BulkHash(multiset)
    /\ UNCHANGED <<xorVars, thrVars, cls, key, m, q, n, l, hmac_sha256, sha256,
                   multiset>>

BNext ==
    \/ \E e \in BulkElems, k \in Mults : SetItem(e, k)
    \/ Clear
    \/ CallHash

SpecBulk == BInit /\ [][BNext]_vars

(***************************************************************************)
(* Properties of the bulk hashers                                          *)
(***************************************************************************)
\* every iteration order of a dict's items
ItemOrders(items) ==
    {[i \in 1..Len(items) |-> items[p[i]]] :
        p \in {f \in [1..Len(items) -> 1..Len(items)] :
                 \A j \in 1..Len(items) : \E i \in 1..Len(items) : f[i] = j}}

Hashed == out.kind # "None"

\* C2: hash(multiset) gives the same result for every iteration order of the
\* same (element, multiplicity) entries, for each of the four bulk hashers.
OrderIndependence ==
    Hashed => \A p \in ItemOrders(multiset) : BulkHash(p) = out

\* C2 witness: the dict {a: 1, b: 2} hashed by an MSetXORHash whose two element
\* hashes differ and are not zero.
OrderIndependenceWitness ==
    /\ cls = "MSetXORHash" /\ out.kind = "return"
    /\ multiset = <<[elem |-> "a", mult |-> 1], [elem |-> "b", mult |-> 2]>>
    /\ H(1, "a") # H(1, "b") /\ H(1, "a") # 0 /\ H(1, "b") # 0

\* what a dict adds to the empty-set hash
RECURSIVE XorOdd(_)
XorOdd(items) ==
    IF items = <<>> THEN 0
    ELSE LET it == Head(items)
         IN Xor(IF it.mult % 2 = 1 THEN H(1, it.elem) ELSE 0, XorOdd(Tail(items)))

RECURSIVE SumMult(_)
SumMult(items) ==
    IF items = <<>> THEN 0 ELSE Head(items).mult + SumMult(Tail(items))

RECURSIVE SumHashMult(_)
SumHashMult(items) ==
    IF items = <<>> THEN 0
    ELSE H(1, Head(items).elem) * Head(items).mult + SumHashMult(Tail(items))

Contributes(items) ==
    IF cls = "MSetXORHash"
    THEN XorOdd(items) # 0 \/ SumMult(items) % Pow(2, m) # 0
    ELSE SumHashMult(items) % Pow(2, m) # 0

\* C3 (as claimed): on an MSetXORHash or MSetAddHash instance, hash(m) differs
\* from hash({}) for every dict m with at least one entry.
EmptySetDistinct ==
    cls \in {"MSetXORHash", "MSetAddHash"} /\ out.kind = "return"
        /\ multiset # <<>>
    => out # BulkHash(<<>>)

\* C3 (amended): hash(m) differs from hash({}) exactly when m contributes:
\* for MSetXORHash, the element hashes of the odd-multiplicity entries do not
\* XOR to zero or the sum of the multiplicities is not a multiple of 2^m; for
\* MSetAddHash, the sum of H(1, e) * multiplicity is not a multiple of 2^m.
EmptySetDistinctWhenContributing ==
    cls \in {"MSetXORHash", "MSetAddHash"} /\ out.kind = "return"
    => (out # BulkHash(<<>>) <=> Contributes(multiset))

\* C3 witness: {a: 2} hashed by an MSetXORHash: the XOR field is that of the
\* empty set, the count field tells the two apart.
EmptySetDistinctWitness ==
    /\ cls = "MSetXORHash" /\ out.kind = "return" /\ m = 8
    /\ multiset = <<[elem |-> "a", mult |-> 2]>>
    /\ H(1, "a") # 0
    /\ out # BulkHash(<<>>)

SingleNonNegative ==
    /\ cls = "MSetXORHash" /\ out.kind = "return"
    /\ Len(multiset) = 1 /\ multiset[1].mult >= 0

\* C4 (as claimed): the XOR field of hash({a: 2k}) is that of hash({}), and
\* the XOR field of hash({a: 2k+1}) is not.
ParityCancellation ==
    SingleNonNegative =>
        LET k == multiset[1].mult
            x == out.value[1]
            x0 == BulkHash(<<>>).value[1]
        IN /\ k % 2 = 0 => x = x0
           /\ k % 2 = 1 => x # x0

\* C4 (amended): the XOR field of hash({a: 2k}) is that of hash({}), and the
\* XOR field of hash({a: 2k+1}) is not, provided H(1, a) is not zero.
ParityCancellationNonZeroHash ==
    SingleNonNegative =>
        LET k == multiset[1].mult
            x == out.value[1]
            x0 == BulkHash(<<>>).value[1]
        IN /\ k % 2 = 0 => x = x0
           /\ k % 2 = 1 /\ H(1, multiset[1].elem) # 0 => x # x0

\* C4 witness: {a: 2} with a non-zero element hash: the XOR field is the seed.
ParityCancellationWitness ==
    /\ SingleNonNegative
    /\ multiset[1].mult = 2
    /\ H(1, multiset[1].elem) # 0
    /\ out.value[1] = H(0, nonce)

NonZero(it) == it.mult # 0

\* the pairs <<A, B>> of dicts with A + B = items (multiplicities added)
Splits(items) ==
    {<<SelectSeq([i \in 1..Len(items) |->
                    [elem |-> items[i].elem, mult |-> f[i]]], NonZero),
       SelectSeq([i \in 1..Len(items) |->
                    [elem |-> items[i].elem, mult |-> items[i].mult - f[i]]],
                 NonZero)>> :
        f \in {g \in [1..Len(items) -> 0..MaxMult] :
                 \A i \in 1..Len(items) : g[i] <= items[i].mult}}

AllNonNegative(items) == \A i \in 1..Len(items) : items[i].mult >= 0

\* C5: on an MSetMuHash instance hash({}) = 1 and, for dicts A and B with
\* non-negative multiplicities, hash(A + B) = hash(A) * hash(B) mod q.
Multiplicativity ==
    cls = "MSetMuHash" /\ out.kind = "return" /\ AllNonNegative(multiset)
    => /\ multiset = <<>> => out.value = 1
       /\ \A s \in Splits(multiset) :
            out.value =
              (MSetMuHash_hash(s[1]).value * MSetMuHash_hash(s[2]).value) % q

\* C5 witness: {a: 2, b: 1} hashed, with element hashes other than 1: it
\* splits into {a: 1} and {a: 1, b: 1}, which share a.
MultiplicativityWitness ==
    /\ cls = "MSetMuHash" /\ out.kind = "return"
    /\ multiset = <<[elem |-> "a", mult |-> 2], [elem |-> "b", mult |-> 1]>>
    /\ MuH("a") > 1 /\ MuH("b") > 1 /\ MuH("a") # MuH("b")
    /\ out.value # 1

\* C6 (as claimed): MSetAddHash, MSetMuHash and MSetVAddHash raise ValueError
\* and return no digest when an entry has a negative multiplicity.
NegativeMultiplicityRejected ==
    /\ cls \in {"MSetAddHash", "MSetMuHash", "MSetVAddHash"}
    /\ Hashed
    /\ \E i \in 1..Len(multiset) : multiset[i].mult < 0
    => out = Raised("ValueError")

====
